---- MODULE Spec2Model ----
(***************************************************************************)
(* Paired patch extraction and indexed retrieval of the CARE notebook      *)
(* (01_CARE/care_solution.ipynb): create_patches, the statistics cell and  *)
(* CAREDataset.                                                            *)
(*                                                                         *)
(* An n-dimensional array is a record                                      *)
(*     [shape |-> <<d1, ..., dr>>, dtype |-> name, data |-> flat sequence, *)
(*      mem |-> name of the memory it reads and writes]                    *)
(* whose data are stored in row-major (C) order, as numpy stores them.     *)
(* An array that a program variable holds since its creation has that      *)
(* variable's name as mem, a view has the mem of the array it views, and   *)
(* every other newly allocated array has mem "own".                        *)
(* Element values are exact numbers: rounding of 32-bit floats is not      *)
(* modelled, the element type is carried as the dtype tag.                 *)
(***************************************************************************)
EXTENDS Integers, Sequences, FiniteSets, TLC

\* ------------------------------------------------------------------ bounds
MaxDim == 3
MaxSamples == 2
MaxPatches == 2
\* the largest number of files a directory holds
MaxFiles == 5
\* the largest number of images of the COSDD stack
MaxImages == 5
\* the largest number of batches a DataLoader yields in one pass
MaxBatches == 2

\* ------------------------------------------------------- array primitives
RECURSIVE Prod(_)
Prod(q) == IF q = <<>> THEN 1 ELSE Head(q) * Prod(Tail(q))

RECURSIVE Unravel(_, _)
Unravel(flat, shape) ==
  IF shape = <<>> THEN <<>>
  ELSE LET inner == Prod(Tail(shape))
       IN  <<flat \div inner>> \o Unravel(flat % inner, Tail(shape))

RECURSIVE Ravel(_, _)
Ravel(idx, shape) ==
  IF idx = <<>> THEN 0
  ELSE Head(idx) * Prod(Tail(shape)) + Ravel(Tail(idx), Tail(shape))

Min(a, b) == IF a < b THEN a ELSE b
Max(a, b) == IF a > b THEN a ELSE b

NoArray == [shape |-> <<>>, dtype |-> "none", data |-> <<>>, mem |-> "own"]

\* the newly allocated array a as the variable of this name holds it
Held(a, name) == [a EXCEPT !.mem = name]

\* what an array holds, whatever memory it occupies
Values(a) == [shape |-> a.shape, dtype |-> a.dtype, data |-> a.data]

Rank(a) == Len(a.shape)

\* a[i] for 0 <= i < a.shape[0]: the i-th sub-array along the first axis
Sub(a, i) ==
  LET inner == Prod(Tail(a.shape))
  IN  [shape |-> Tail(a.shape), dtype |-> a.dtype,
       data  |-> [j \in 1..inner |-> a.data[i * inner + j]],
       mem   |-> a.mem]

\* a[(..., slice(c1, c1+p1), ..., slice(ck, ck+pk))]: the slices address the
\* TRAILING k axes; a slice is clipped to the axis, as numpy clips it.
SliceTrailing(a, coords, psize) ==
  LET r     == Rank(a)
      k     == Len(coords)
      lead  == r - k
      start == [x \in 1..r |-> IF x <= lead THEN 0
                               ELSE Min(coords[x - lead], a.shape[x])]
      stop  == [x \in 1..r |-> IF x <= lead THEN a.shape[x]
                               ELSE Min(coords[x - lead] + psize[x - lead], a.shape[x])]
      nshape == [x \in 1..r |-> Max(0, stop[x] - start[x])]
  IN  [shape |-> nshape, dtype |-> a.dtype,
       data  |-> [j \in 1..Prod(nshape) |->
                    LET idx == Unravel(j - 1, nshape)
                    IN  a.data[1 + Ravel([x \in 1..r |-> idx[x] + start[x]], a.shape)]],
       mem   |-> a.mem]

\* a.copy() allocates
Copy(a) == [a EXCEPT !.mem = "own"]

\* a.astype(t) allocates, whatever the type of a
AsType(a, t) == [a EXCEPT !.dtype = t, !.mem = "own"]

RECURSIVE Concat(_)
Concat(arrays) ==
  IF arrays = <<>> THEN <<>> ELSE Head(arrays).data \o Concat(Tail(arrays))

CanStackLoose(arrays) ==
  \A i \in 1..Len(arrays) : arrays[i].shape = arrays[1].shape

\* np.stack accepts a non-empty list of arrays of one shape
CanStack(arrays) ==
  /\ arrays # <<>>
  /\ \A i \in 1..Len(arrays) : arrays[i].shape = arrays[1].shape

Stack(arrays) ==
  [shape |-> <<Len(arrays)>> \o (IF arrays = <<>> THEN <<>> ELSE arrays[1].shape),
   dtype |-> IF arrays = <<>> THEN "float64" ELSE arrays[1].dtype,
   data  |-> Concat(arrays),
   mem   |-> "own"]

\* ------------------------------------------------------------ the inputs
RECURSIVE Shapes(_)
Shapes(r) ==
  IF r = 0 THEN {<<>>}
  ELSE {<<d>> \o t : d \in 1..MaxDim, t \in Shapes(r - 1)}

SampleShapes == Shapes(1) \cup Shapes(2)
PatchSizes == Shapes(1) \cup Shapes(2)

\* np.arange(n).reshape(shape) + base
Arange(shape, base) ==
  [shape |-> shape, dtype |-> "int64",
   data  |-> [j \in 1..Prod(shape) |-> base + j - 1],
   mem   |-> "own"]

\* a stack whose elements all have the value v
Constant(shape, v) ==
  [shape |-> shape, dtype |-> "int64",
   data  |-> [j \in 1..Prod(shape) |-> v],
   mem   |-> "own"]

NPatchesFloor(shape, psize) == Prod(shape) \div Prod(psize)

\* n_patches = np.ceil(np.prod(sample.shape) / np.prod(patch_size)).astype(int)
NPatches(shape, psize) ==
  LET v == Prod(shape)
      p == Prod(psize)
  IN  IF (v \div p) * p = v THEN v \div p ELSE (v \div p) + 1

\* ------------------------------------------------- statistics, normalize
\* Exact rationals [n, d] with d > 0 in lowest terms; a standard deviation is
\* kept as the symbolic square root [sq |-> variance].
RECURSIVE Gcd(_, _)
Gcd(a, b) == IF b = 0 THEN a ELSE Gcd(b, a % b)

Abs(a) == IF a < 0 THEN -a ELSE a

Q(n, d) ==
  LET g == Gcd(Abs(n), d)
  IN  [n |-> n \div g, d |-> d \div g]

Zero == [n |-> 0, d |-> 1]

Sqrt(q) == [sq |-> q]

RECURSIVE Sum(_)
Sum(q) == IF q = <<>> THEN 0 ELSE Head(q) + Sum(Tail(q))

\* array.mean() over all elements of a non-empty array
Mean(a) == Q(Sum(a.data), Len(a.data))

\* array.std() over all elements: sqrt(mean(x^2) - mean(x)^2)
Std(a) ==
  LET n  == Len(a.data)
      s1 == Sum(a.data)
      s2 == Sum([j \in 1..n |-> a.data[j] * a.data[j]])
  IN  Sqrt(Q(n * s2 - s1 * s1, n * n))

\* (x - mean) / std for one element; numpy's float division by zero yields
\* nan or +-inf and raises nothing
NormEl(x, mean, std) ==
  LET num == Q(x * mean.d - mean.n, mean.d)
  IN  IF std.sq.n # 0 THEN [kind |-> "num", num |-> num, sq |-> std.sq]
      ELSE IF num.n = 0 THEN [kind |-> "nan", num |-> num, sq |-> std.sq]
      ELSE IF num.n > 0 THEN [kind |-> "inf", num |-> num, sq |-> std.sq]
      ELSE [kind |-> "-inf", num |-> num, sq |-> std.sq]

\* a normalize that divides whatever the std
normalize_never_fails(std) == FALSE

\* transforms.normalize(array, mean, std) fails with DegenerateStatisticsError
\* for a zero std
normalize_fails(std) == std.sq.n = 0

\* transforms.normalize(array, mean, std)
normalize(a, mean, std) ==
  [shape |-> a.shape, dtype |-> "float64",
   data  |-> [j \in 1..Len(a.data) |-> NormEl(a.data[j], mean, std)],
   mem   |-> "own"]

\* the sum of two rationals
QAdd(a, b) == Q(a.n * b.d + b.n * a.d, a.d * b.d)

\* e * std + mean for one normalized element e: a rational when e was divided
\* by this very std, and otherwise the product carried symbolically
DenormEl(e, mean, std) ==
  IF e.kind = "num" /\ e.sq = std.sq
  THEN [kind |-> "num", val |-> QAdd(e.num, mean)]
  ELSE [kind |-> "scaled", of |-> e, by |-> std.sq, plus |-> mean]

\* a denormalize that subtracts the mean
denormalize_minus_mean(a, mean, std) ==
  [shape |-> a.shape, dtype |-> a.dtype,
   data  |-> [j \in 1..Len(a.data) |->
                DenormEl(a.data[j], [n |-> 0 - mean.n, d |-> mean.d], std)],
   mem   |-> "own"]

\* transforms.denormalize(array, mean, std)
denormalize(a, mean, std) ==
  [shape |-> a.shape, dtype |-> a.dtype,
   data  |-> [j \in 1..Len(a.data) |-> DenormEl(a.data[j], mean, std)],
   mem   |-> "own"]

\* ------------------------------------------------------------ augmentation
\* The discrete transform set, acting on the last two axes of an array.
Transforms == {"identity", "rot90", "rot180", "rot270", "hflip", "vflip"}

Transform(a, t) ==
  LET r  == Rank(a)
      h  == a.shape[r - 1]
      w  == a.shape[r]
      swap == t \in {"rot90", "rot270"}
      nshape == [x \in 1..r |-> IF swap /\ x = r - 1 THEN w
                                ELSE IF swap /\ x = r THEN h
                                ELSE a.shape[x]]
      src(idx) ==
        LET i == idx[r - 1]
            j == idx[r]
            ij == CASE t = "identity" -> <<i, j>>
                    [] t = "rot90"    -> <<j, w - 1 - i>>
                    [] t = "rot180"   -> <<h - 1 - i, w - 1 - j>>
                    [] t = "rot270"   -> <<h - 1 - j, i>>
                    [] t = "hflip"    -> <<i, w - 1 - j>>
                    [] t = "vflip"    -> <<h - 1 - i, j>>
        IN  [x \in 1..r |-> IF x = r - 1 THEN ij[1]
                            ELSE IF x = r THEN ij[2] ELSE idx[x]]
  IN  [shape |-> nshape, dtype |-> a.dtype,
       data  |-> [j \in 1..Prod(nshape) |->
                    a.data[1 + Ravel(src(Unravel(j - 1, nshape)), a.shape)]],
       mem   |-> a.mem]

\* transforms.augment_batch(patch, target) under the transform t it drew
augment_batch(patch, target, t) == <<Transform(patch, t), Transform(target, t)>>

\* a[np.newaxis]
NewAxis(a) == [a EXCEPT !.shape = <<1>> \o a.shape]

\* the indices tried on a dataset: both sides of [-length, length)
Indices == (0 - (MaxPatches + 1))..MaxPatches

\* item and length hold what the call in progress returned, until the caller
\* has used the value and drops it
NoLength == 0 - 1

NoItem == [status |-> "none", index |-> 0, t |-> "identity",
           patch |-> NoArray, target |-> NoArray]

VARIABLES image_array, target_array, patch_size,
          pc, err, s, sample, target_sample, n_patches, k, crop_coords,
          image_patches, target_patches, draws, log,
          images_patches, targets_patches,
          train_mean, train_std, target_mean, target_std,
          image_data, target_data, patch_augment,
          item, length, kept,
          test_image, prediction,
          worker,
          image_files, target_files, listed,
          train_image_files, train_target_files,
          val_image_files, val_target_files,
          low_snr, train_set, val_set,
          n_train_batches, n_val_batches, epoch, batch_i, mode, grads, updates,
          output, train_loss, val_loss, train_losses, val_losses, events,
          test_images_array, test_targets_array

inputs  == <<image_array, target_array, patch_size>>
locals  == <<s, sample, target_sample, n_patches, k, crop_coords>>
lists   == <<image_patches, target_patches, log>>
rets    == <<images_patches, targets_patches>>
stats   == <<train_mean, train_std, target_mean, target_std>>
dataset == <<image_data, target_data, patch_augment>>
calls   == <<item, length, kept>>
shown   == <<test_image, prediction>>
care    == <<inputs, locals, lists, draws, rets, stats, dataset, calls, shown>>
files   == <<image_files, target_files, listed,
             train_image_files, train_target_files,
             val_image_files, val_target_files>>
cosdd   == <<low_snr, train_set, val_set>>
loaders == <<n_train_batches, n_val_batches>>
training == <<loaders, epoch, batch_i, mode, grads, updates, output,
              train_loss, val_loss, train_losses, val_losses, events>>
tests   == <<test_images_array, test_targets_array>>
outside == <<files, cosdd, training, tests>>
others  == <<worker, outside>>
vars == <<inputs, pc, err, locals, lists, draws, rets, stats, dataset, calls, shown, others>>

\* the DataLoader's worker processes
NumWorkers == 2

Workers == 1..NumWorkers

\* a worker between two retrievals
Idle == [pc |-> "idle", index |-> 0]

\* the variables outside the CARE pipeline of patches, datasets and prediction,
\* before anything ran
WorkersStart == worker = [w \in Workers |-> Idle]

\* the file lists of the split cell before the cell ran
FilesStart ==
  /\ image_files = <<>>
  /\ target_files = <<>>
  /\ listed = [images |-> <<>>, targets |-> <<>>]
  /\ train_image_files = <<>>
  /\ train_target_files = <<>>
  /\ val_image_files = <<>>
  /\ val_target_files = <<>>

\* the COSDD notebook's images before they are loaded
CosddStart ==
  /\ low_snr = <<>>
  /\ train_set = <<>>
  /\ val_set = <<>>

\* a name the notebook has not assigned yet
Undefined == [kind |-> "undefined"]

\* the model, the optimizer and the names of the training cell before the
\* cell ran: a new nn.Module is in training mode
TrainingStart ==
  /\ epoch = 0 - 1
  /\ batch_i = 0 - 1
  /\ mode = "train"
  /\ grads = "none"
  /\ updates = 0
  /\ output = Undefined
  /\ train_loss = Undefined
  /\ val_loss = Undefined
  /\ train_losses = <<>>
  /\ val_losses = <<>>
  /\ events = <<>>

\* the test stacks before they are loaded
TestsStart ==
  /\ test_images_array = NoArray
  /\ test_targets_array = NoArray

RestStart ==
  /\ WorkersStart
  /\ FilesStart
  /\ CosddStart
  /\ n_train_batches = 0
  /\ n_val_batches = 0
  /\ TrainingStart
  /\ TestsStart

PipelineStart ==
  /\ err = "none"
  /\ s = 0
  /\ sample = NoArray
  /\ target_sample = NoArray
  /\ n_patches = 0
  /\ k = 0
  /\ crop_coords = <<>>
  /\ image_patches = <<>>
  /\ target_patches = <<>>
  /\ draws = 0
  /\ log = <<>>
  /\ images_patches = NoArray
  /\ targets_patches = NoArray
  /\ train_mean = Zero
  /\ train_std = Sqrt(Zero)
  /\ target_mean = Zero
  /\ target_std = Sqrt(Zero)
  /\ image_data = NoArray
  /\ target_data = NoArray
  /\ patch_augment = FALSE
  /\ item = NoItem
  /\ length = NoLength
  /\ kept = NoItem
  /\ test_image = NoArray
  /\ prediction = NoArray

Start ==
  /\ pc = "for_s"
  /\ PipelineStart
  /\ RestStart

\* the number of axes on which two shapes of one rank differ
Differing(shape1, shape2) ==
  Cardinality({x \in 1..Len(shape1) : shape1[x] # shape2[x]})

\* create_patches(image_array, target_array, patch_size) on two stacks of one
\* rank: the target deviates from the image stack in at most one respect, the
\* size of one axis (the number of samples included) or its values
Init ==
  /\ \E shape \in SampleShapes, ns \in 0..MaxSamples :
       image_array = Held(Arange(<<ns>> \o shape, 0), "image_array")
  /\ \E tshape \in SampleShapes, nt \in 0..MaxSamples, base \in {0, 10} :
       /\ Len(tshape) = Rank(image_array) - 1
       /\ Differing(<<nt>> \o tshape, image_array.shape) + (IF base = 0 THEN 0 ELSE 1) <= 1
       /\ target_array = Held(Arange(<<nt>> \o tshape, base), "target_array")
  /\ patch_size \in PatchSizes
  /\ image_array.shape[1] * NPatches(Tail(image_array.shape), patch_size) <= MaxPatches
  /\ Start

\* the notebook's pipeline: the stacks are loaded from paired files, so the
\* target stack has the shape of the image stack
InitInputs ==
  /\ \E shape \in SampleShapes, ns \in 0..MaxSamples :
       \/ \E base \in {0, 10} :
            /\ image_array = Held(Arange(<<ns>> \o shape, 0), "image_array")
            /\ target_array = Held(Arange(<<ns>> \o shape, base), "target_array")
       \/ /\ image_array = Held(Constant(<<ns>> \o shape, 0), "image_array")
          /\ target_array = Held(Arange(<<ns>> \o shape, 10), "target_array")
  /\ patch_size \in PatchSizes
  /\ image_array.shape[1] * NPatches(Tail(image_array.shape), patch_size) <= MaxPatches

InitData ==
  /\ InitInputs
  /\ Start

Raise(e) ==
  /\ pc' = "raised"
  /\ err' = e

\* the stack a with 1 subtracted from every element of its sample number i
Lowered(a, i) ==
  LET inner == Prod(Tail(a.shape))
  IN  [a EXCEPT !.data = [j \in 1..Len(a.data) |->
                            IF i * inner < j /\ j <= (i + 1) * inner
                            THEN a.data[j] - 1 ELSE a.data[j]]]

\* a loop head that lowers the sample in place: image_array[s] is a view, so
\* the subtraction writes into the stack
ForSampleInPlace ==
  /\ pc = "for_s"
  /\ s < image_array.shape[1]
  /\ IF s >= target_array.shape[1]
     THEN /\ Raise("IndexError")
          /\ sample' = Sub(image_array, s)
          /\ UNCHANGED <<image_array, target_sample, n_patches, k>>
     ELSE /\ image_array' = Lowered(image_array, s)
          /\ sample' = Sub(Lowered(image_array, s), s)
          /\ target_sample' = Sub(target_array, s)
          /\ n_patches' = NPatches(Tail(image_array.shape), patch_size)
          /\ k' = 0
          /\ pc' = "for_p"
          /\ UNCHANGED err
  /\ UNCHANGED <<target_array, patch_size, s, crop_coords, lists, draws, rets, stats, dataset, calls, shown, others>>

\* for s in range(image_array.shape[0]): sample, target_sample, n_patches
ForSample ==
  /\ pc = "for_s"
  /\ s < image_array.shape[1]
  /\ IF s >= target_array.shape[1]
     THEN /\ Raise("IndexError")
          /\ sample' = Sub(image_array, s)
          /\ UNCHANGED <<target_sample, n_patches, k>>
     ELSE /\ sample' = Sub(image_array, s)
          /\ target_sample' = Sub(target_array, s)
          /\ n_patches' = NPatches(Tail(image_array.shape), patch_size)
          /\ k' = 0
          /\ pc' = "for_p"
          /\ UNCHANGED err
  /\ UNCHANGED <<inputs, s, crop_coords, lists, draws, rets, stats, dataset, calls, shown, others>>

\* for _ in range(n_patches): next patch, or next sample when exhausted
ForPatch ==
  /\ pc = "for_p"
  /\ IF k < n_patches
     THEN /\ crop_coords' = <<>>
          /\ pc' = "draw"
          /\ UNCHANGED s
     ELSE /\ s' = s + 1
          /\ pc' = "for_s"
          /\ UNCHANGED crop_coords
  /\ UNCHANGED <<inputs, err, sample, target_sample, n_patches, k, lists, draws, rets, stats, dataset, calls, shown, others>>

\* rng.integers(0, sample.shape[i] - patch_size[i], endpoint=True)
DrawHighClamped(i) == Max(0, sample.shape[i] - patch_size[i])
DrawHighNoSubtract(i) == IF sample.shape[i] < patch_size[i]
                         THEN sample.shape[i] - patch_size[i]
                         ELSE sample.shape[i] - 1

DrawHigh(i) == sample.shape[i] - patch_size[i]

DrawCoord ==
  /\ pc = "draw"
  /\ Len(crop_coords) < Len(patch_size)
  /\ LET i == Len(crop_coords) + 1
     IN  IF i > Rank(sample)
         THEN /\ Raise("IndexError")
              /\ UNCHANGED <<crop_coords, draws>>
         ELSE IF DrawHigh(i) < 0
         THEN /\ Raise("ValueError")
              /\ UNCHANGED <<crop_coords, draws>>
         ELSE /\ \E c \in 0..DrawHigh(i) : crop_coords' = Append(crop_coords, c)
              /\ draws' = draws + 1
              /\ UNCHANGED <<pc, err>>
  /\ UNCHANGED <<inputs, s, sample, target_sample, n_patches, k, lists, rets, stats, dataset, calls, shown, others>>

\* sample[(..., *slices)].copy().astype(np.float32), the same for the target
\* a cut that keeps the element type of the stack
CutFromNoCast(a, coords, psize) == Copy(SliceTrailing(a, coords, psize))

CutFrom(a, coords, psize) == AsType(Copy(SliceTrailing(a, coords, psize)), "float32")

patch == CutFrom(sample, crop_coords, patch_size)

target_patch_at_origin ==
  CutFrom(target_sample, [i \in 1..Len(crop_coords) |-> 0], patch_size)

target_patch == CutFrom(target_sample, crop_coords, patch_size)

\* image_patches.append(patch); target_patches.append(target_patch)
PrependPatch(list, p) == <<p>> \o list

AppendPatch(list, p) == Append(list, p)

CutPatch ==
  /\ pc = "draw"
  /\ Len(crop_coords) = Len(patch_size)
  /\ image_patches' = AppendPatch(image_patches, patch)
  /\ target_patches' = AppendPatch(target_patches, target_patch)
  /\ log' = Append(log, [s |-> s, coords |-> crop_coords])
  /\ k' = k + 1
  /\ pc' = "for_p"
  /\ UNCHANGED <<inputs, err, s, sample, target_sample, n_patches, crop_coords, draws, rets, stats, dataset, calls, shown, others>>

\* return np.stack(image_patches), np.stack(target_patches)
Return ==
  /\ pc = "for_s"
  /\ s >= image_array.shape[1]
  /\ IF CanStack(image_patches) /\ CanStack(target_patches)
     THEN /\ images_patches' = Held(Stack(image_patches), "images_patches")
          /\ targets_patches' = Held(Stack(target_patches), "targets_patches")
          /\ pc' = "returned"
          /\ UNCHANGED err
     ELSE /\ Raise("ValueError")
          /\ UNCHANGED rets
  /\ UNCHANGED <<inputs, locals, lists, draws, stats, dataset, calls, shown, others>>

\* a statistics cell that measures the extracted patches
StatisticsCellFromPatches ==
  /\ pc = "returned"
  /\ train_mean' = Mean(images_patches)
  /\ train_std' = Std(images_patches)
  /\ target_mean' = Mean(targets_patches)
  /\ target_std' = Std(targets_patches)
  /\ pc' = "statistics"
  /\ UNCHANGED <<inputs, err, locals, lists, draws, rets, dataset, calls, shown, others>>

\* train_mean, train_std, target_mean, target_std of the training stacks
StatisticsCell ==
  /\ pc = "returned"
  /\ train_mean' = Mean(image_array)
  /\ train_std' = Std(image_array)
  /\ target_mean' = Mean(target_array)
  /\ target_std' = Std(target_array)
  /\ pc' = "statistics"
  /\ UNCHANGED <<inputs, err, locals, lists, draws, rets, dataset, calls, shown, others>>

\* a constructor that takes the statistics anew, from the data it is given
CAREDataset_init_own_statistics ==
  /\ pc = "statistics"
  /\ \E apply_augmentations \in BOOLEAN :
       /\ apply_augmentations => Rank(images_patches) >= 3
       /\ patch_augment' = apply_augmentations
  /\ image_data' = images_patches
  /\ target_data' = targets_patches
  /\ train_mean' = Mean(images_patches)
  /\ train_std' = Std(images_patches)
  /\ target_mean' = Mean(targets_patches)
  /\ target_std' = Std(targets_patches)
  /\ pc' = "dataset"
  /\ UNCHANGED <<inputs, err, locals, lists, draws, rets, calls, shown, others>>

\* CAREDataset(image_data=train_images_patches, target_data=train_targets_patches,
\*             apply_augmentations=...)
CAREDataset_init ==
  /\ pc = "statistics"
  /\ \E apply_augmentations \in BOOLEAN :
       /\ apply_augmentations => Rank(images_patches) >= 3
       /\ patch_augment' = apply_augmentations
  /\ image_data' = images_patches
  /\ target_data' = targets_patches
  /\ pc' = "dataset"
  /\ UNCHANGED <<inputs, err, locals, lists, draws, rets, stats, calls, shown, others>>

\* CAREDataset.__len__
CAREDataset_len_inner == image_data.shape[2]

CAREDataset_len == image_data.shape[1]

Length ==
  /\ pc = "dataset"
  /\ length' = CAREDataset_len
  /\ pc' = "called"
  /\ UNCHANGED <<inputs, err, locals, lists, draws, rets, stats, dataset, item, kept, shown, others>>

\* a[index] for a Python integer index: a negative index counts from the end
InRangeNonNegative(a, index) == 0 <= index /\ index < a.shape[1]

InRange(a, index) == (0 - a.shape[1]) <= index /\ index < a.shape[1]
At(a, index) == IF index < 0 THEN Sub(a, index + a.shape[1]) ELSE Sub(a, index)

\* patch[np.newaxis].astype(np.float32)
ToOutputNoCast(a) == NewAxis(a)

ToOutput(a) == AsType(NewAxis(a), "float32")

\* the offsets a patch of size psize can be cut at in a sample of this shape
RECURSIVE OffsetChoices(_, _)
OffsetChoices(shape, psize) ==
  IF psize = <<>> THEN {<<>>}
  ELSE {<<c>> \o rest : c \in 0..Max(0, Head(shape) - Head(psize)),
                         rest \in OffsetChoices(Tail(shape), Tail(psize))}

\* a variant that hands out the stored patches as they are
CAREDataset_getitem_stored(index, t) ==
  [status |-> "ok", index |-> index, t |-> t,
   patch  |-> NewAxis(At(image_data, index)),
   target |-> NewAxis(At(target_data, index))]

\* a variant that normalizes the target with the noisy stack's statistics
CAREDataset_getitem_train_stats(index, t) ==
  LET p0  == At(image_data, index)
      t0  == At(target_data, index)
      aug == IF patch_augment
             THEN augment_batch(p0, t0, t)
             ELSE <<p0, t0>>
      p1  == normalize(aug[1], train_mean, train_std)
      t1  == normalize(aug[2], train_mean, train_std)
  IN  IF normalize_fails(train_std) \/ normalize_fails(target_std)
      THEN [NoItem EXCEPT !.status = "DegenerateStatisticsError", !.index = index]
      ELSE [status |-> "ok", index |-> index, t |-> t,
            patch  |-> ToOutput(p1),
            target |-> ToOutput(t1)]

\* a variant that augments the noisy patch and leaves the target as stored
CAREDataset_getitem_patch_only(index, t) ==
  LET p0  == At(image_data, index)
      t0  == At(target_data, index)
      p1  == normalize(IF patch_augment THEN Transform(p0, t) ELSE p0,
                       train_mean, train_std)
      t1  == normalize(t0, target_mean, target_std)
  IN  [status |-> "ok", index |-> index, t |-> t,
       patch  |-> ToOutput(p1),
       target |-> ToOutput(t1)]

\* the body of CAREDataset.__getitem__ for an index both arrays hold, under
\* the transform t that augment_batch drew
CAREDataset_getitem(index, t) ==
  LET p0  == At(image_data, index)
      t0  == At(target_data, index)
      aug == IF patch_augment
             THEN augment_batch(p0, t0, t)
             ELSE <<p0, t0>>
      p1  == normalize(aug[1], train_mean, train_std)
      t1  == normalize(aug[2], target_mean, target_std)
  IN  IF normalize_fails(train_std) \/ normalize_fails(target_std)
      THEN [NoItem EXCEPT !.status = "DegenerateStatisticsError", !.index = index]
      ELSE [status |-> "ok", index |-> index, t |-> t,
            patch  |-> ToOutput(p1),
            target |-> ToOutput(t1)]

\* a variant that cuts the pair anew, at offsets drawn at the time of the call
GetItemResampling ==
  /\ pc = "dataset"
  /\ \E index \in Indices :
       IF ~ (InRange(image_data, index) /\ InRange(target_data, index))
       THEN item' = [NoItem EXCEPT !.status = "IndexError", !.index = index]
       ELSE \E coords \in OffsetChoices(Tail(image_array.shape), patch_size) :
              LET e  == log[(IF index < 0 THEN index + image_data.shape[1] ELSE index) + 1]
                  p1 == normalize(CutFrom(Sub(image_array, e.s), coords, patch_size),
                                  train_mean, train_std)
                  t1 == normalize(CutFrom(Sub(target_array, e.s), coords, patch_size),
                                  target_mean, target_std)
              IN  item' = [status |-> "ok", index |-> index, t |-> "identity",
                           patch  |-> ToOutput(p1),
                           target |-> ToOutput(t1)]
  /\ pc' = "called"
  /\ UNCHANGED <<inputs, err, locals, lists, draws, rets, stats, dataset, length, kept, shown, others>>

\* CAREDataset.__getitem__
GetItem ==
  /\ pc = "dataset"
  /\ \E index \in Indices :
       IF ~ (InRange(image_data, index) /\ InRange(target_data, index))
       THEN item' = [NoItem EXCEPT !.status = "IndexError", !.index = index]
       ELSE \E t \in Transforms :
              /\ patch_augment \/ t = "identity"
              /\ item' = CAREDataset_getitem(index, t)
  /\ pc' = "called"
  /\ UNCHANGED <<inputs, err, locals, lists, draws, rets, stats, dataset, length, kept, shown, others>>

\* the caller is done with the returned value (an assert of the dataset check,
\* a batch of the data loader) and is ready for its next call
Discard ==
  /\ pc = "called"
  /\ item' = NoItem
  /\ length' = NoLength
  /\ pc' = "dataset"
  /\ UNCHANGED <<inputs, err, locals, lists, draws, rets, stats, dataset, kept, shown, others>>

\* one pass of the prediction loop over a batch of one pair retrieved from a
\* dataset built without augmentation: the model's output is an array of the
\* batch's shape, here the batch itself or the target batch
Predict ==
  /\ pc = "called"
  /\ item.status = "ok"
  /\ ~ patch_augment
  /\ \E model_output \in {NewAxis(item.patch), NewAxis(item.target)} :
       /\ test_image' = denormalize(NewAxis(item.patch), train_mean, train_std)
       /\ prediction' = denormalize(model_output, train_mean, train_std)
  /\ pc' = "predicted"
  /\ UNCHANGED <<inputs, err, locals, lists, draws, rets, stats, dataset, calls, others>>

\* the loop goes on to the next batch
NextBatch ==
  /\ pc = "predicted"
  /\ item' = NoItem
  /\ test_image' = NoArray
  /\ prediction' = NoArray
  /\ pc' = "dataset"
  /\ UNCHANGED <<inputs, err, locals, lists, draws, rets, stats, dataset, length, kept, others>>

\* a sequence in reverse order
Reversed(q) == [j \in 1..Len(q) |-> q[Len(q) + 1 - j]]

\* the array v after a caller reversed, in place, the elements of array x,
\* which is or views the i-th sub-array of the memory x.mem
WrittenThrough(v, x, i) ==
  LET inner == Len(x.data)
  IN  IF x.mem = "own" \/ x.mem # v.mem THEN v
      ELSE [v EXCEPT !.data =
              [j \in 1..Len(v.data) |->
                 IF i * inner < j /\ j <= (i + 1) * inner
                 THEN x.data[(i + 1) * inner + 1 - j]
                 ELSE v.data[j]]]

\* the caller of create_patches reverses one returned noisy patch in place
MutatePatch ==
  /\ pc = "returned"
  /\ \E i \in 0..(images_patches.shape[1] - 1) :
       LET x == Sub(images_patches, i)
       IN  /\ image_array' = WrittenThrough(image_array, x, i)
           /\ target_array' = WrittenThrough(target_array, x, i)
           /\ images_patches' = WrittenThrough(images_patches, x, i)
           /\ targets_patches' = WrittenThrough(targets_patches, x, i)
  /\ pc' = "mutated"
  /\ UNCHANGED <<patch_size, err, locals, lists, draws, stats, dataset, calls, shown, others>>

\* the caller of getItem reverses the returned noisy array in place
MutateItem ==
  /\ pc = "called"
  /\ item.status = "ok"
  /\ LET x == item.patch
         n == image_data.shape[1]
         i == IF item.index < 0 THEN item.index + n ELSE item.index
     IN  /\ item' = [item EXCEPT !.patch.data = Reversed(x.data)]
         /\ image_array' = WrittenThrough(image_array, x, i)
         /\ target_array' = WrittenThrough(target_array, x, i)
         /\ images_patches' = WrittenThrough(images_patches, x, i)
         /\ targets_patches' = WrittenThrough(targets_patches, x, i)
         /\ image_data' = WrittenThrough(image_data, x, i)
         /\ target_data' = WrittenThrough(target_data, x, i)
  /\ UNCHANGED <<patch_size, pc, err, locals, lists, draws, stats, patch_augment,
                 length, kept, shown, others>>

\* a worker takes the next index from the sampler, which yields
\* range(len(dataset)), and enters __getitem__: image_data[index] and
\* target_data[index] are views, no element is read yet
WorkerFetch(w) ==
  /\ pc = "dataset"
  /\ worker[w].pc = "idle"
  /\ \E index \in 0..(CAREDataset_len - 1) :
       worker' = [worker EXCEPT ![w] = [pc |-> "fetched", index |-> index]]
  /\ UNCHANGED <<inputs, pc, err, locals, lists, draws, rets, stats, dataset, calls, shown, outside>>

\* a worker whose __getitem__ reverses the stored noisy patch in place before
\* it normalizes it
WorkerComputeInPlace(w) ==
  /\ pc = "dataset"
  /\ worker[w].pc = "fetched"
  /\ LET x == At(image_data, worker[w].index)
         written == WrittenThrough(image_data, x, worker[w].index)
     IN  /\ image_data' = written
         /\ images_patches' = written
         /\ item' = [CAREDataset_getitem(worker[w].index, "identity") EXCEPT
                       !.patch.data = Reversed(@)]
  /\ worker' = [worker EXCEPT ![w] = Idle]
  /\ pc' = "called"
  /\ UNCHANGED <<inputs, err, locals, lists, draws, targets_patches, stats,
                 target_data, patch_augment, length, kept, shown, outside>>

\* the rest of the worker's __getitem__ (augment, normalize, add the axis)
\* reads the stored elements; the worker hands the pair to the loader
WorkerCompute(w) ==
  /\ pc = "dataset"
  /\ worker[w].pc = "fetched"
  /\ \E t \in Transforms :
       /\ patch_augment \/ t = "identity"
       /\ item' = CAREDataset_getitem(worker[w].index, t)
  /\ worker' = [worker EXCEPT ![w] = Idle]
  /\ pc' = "called"
  /\ UNCHANGED <<inputs, err, locals, lists, draws, rets, stats, dataset, length, kept, shown, outside>>

\* the caller keeps the first pair it received for a later comparison: the
\* dataset check retrieves train_dataset[42] six times, from a dataset built
\* without augmentation
Keep ==
  /\ pc = "called"
  /\ item.status = "ok"
  /\ ~ patch_augment
  /\ kept = NoItem
  /\ kept' = item
  /\ item' = NoItem
  /\ length' = NoLength
  /\ pc' = "dataset"
  /\ UNCHANGED <<inputs, err, locals, lists, draws, rets, stats, dataset, shown, others>>

Next ==
  \/ ForSample
  \/ ForPatch
  \/ DrawCoord
  \/ CutPatch
  \/ Return

Spec == Init /\ [][Next]_vars

NextData ==
  \/ ForSample
  \/ ForPatch
  \/ DrawCoord
  \/ CutPatch
  \/ Return
  \/ StatisticsCell
  \/ CAREDataset_init
  \/ Length
  \/ GetItem
  \/ Discard

SpecData == InitData /\ [][NextData]_vars

\* the pipeline with a caller that keeps one pair and retrieves again
NextKeep ==
  \/ ForSample
  \/ ForPatch
  \/ DrawCoord
  \/ CutPatch
  \/ Return
  \/ StatisticsCell
  \/ CAREDataset_init
  \/ Length
  \/ GetItem
  \/ Discard
  \/ Keep

SpecKeep == InitData /\ [][NextKeep]_vars

\* the pipeline with callers that write into the arrays they are handed
NextMutate ==
  \/ ForSample
  \/ ForPatch
  \/ DrawCoord
  \/ CutPatch
  \/ Return
  \/ StatisticsCell
  \/ CAREDataset_init
  \/ Length
  \/ GetItem
  \/ Discard
  \/ MutatePatch
  \/ MutateItem

SpecMutate == InitData /\ [][NextMutate]_vars

\* the pipeline with a loader whose workers retrieve concurrently
\* every patch is a whole sample
InitWorkers ==
  /\ InitData
  /\ patch_size = Tail(image_array.shape)

NextWorkers ==
  \/ ForSample
  \/ ForPatch
  \/ DrawCoord
  \/ CutPatch
  \/ Return
  \/ StatisticsCell
  \/ CAREDataset_init
  \/ \E w \in Workers : WorkerFetch(w)
  \/ \E w \in Workers : WorkerCompute(w)
  \/ Discard

SpecWorkers == InitWorkers /\ [][NextWorkers]_vars

\* the pipeline up to the prediction loop
NextPredict ==
  \/ ForSample
  \/ ForPatch
  \/ DrawCoord
  \/ CutPatch
  \/ Return
  \/ StatisticsCell
  \/ CAREDataset_init
  \/ Length
  \/ GetItem
  \/ Discard
  \/ Predict
  \/ NextBatch

SpecPredict == InitData /\ [][NextPredict]_vars

\* normalize and denormalize as functions: any stack, any mean, any std
Means == {Q(n, d) : n \in (0 - 1)..2, d \in 1..2}

Variances == {Q(n, d) : n \in 0..2, d \in 1..2}

InitRoundTrip ==
  /\ \E shape \in SampleShapes, base \in {0 - 3, 0, 10} :
       image_array = Held(Arange(shape, base), "image_array")
  /\ target_array = NoArray
  /\ patch_size = <<>>
  /\ pc = "roundtrip"
  /\ err = "none"
  /\ s = 0
  /\ sample = NoArray
  /\ target_sample = NoArray
  /\ n_patches = 0
  /\ k = 0
  /\ crop_coords = <<>>
  /\ image_patches = <<>>
  /\ target_patches = <<>>
  /\ draws = 0
  /\ log = <<>>
  /\ images_patches = NoArray
  /\ targets_patches = NoArray
  /\ train_mean \in Means
  /\ \E v \in Variances : train_std = Sqrt(v)
  /\ target_mean = Zero
  /\ target_std = Sqrt(Zero)
  /\ image_data = NoArray
  /\ target_data = NoArray
  /\ patch_augment = FALSE
  /\ item = NoItem
  /\ length = NoLength
  /\ kept = NoItem
  /\ test_image = NoArray
  /\ prediction = NoArray
  /\ RestStart

\* normalize(image_array, train_mean, train_std)
NormalizeCall ==
  /\ pc = "roundtrip"
  /\ IF normalize_fails(train_std)
     THEN /\ pc' = "raised"
          /\ err' = "DegenerateStatisticsError"
          /\ UNCHANGED item
     ELSE /\ item' = [NoItem EXCEPT !.status = "ok",
                                    !.patch = normalize(image_array, train_mean, train_std)]
          /\ pc' = "normalized"
          /\ UNCHANGED err
  /\ UNCHANGED <<inputs, locals, lists, draws, rets, stats, dataset, length, kept, shown, others>>

\* denormalize(normalized, train_mean, train_std)
DenormalizeCall ==
  /\ pc = "normalized"
  /\ test_image' = denormalize(item.patch, train_mean, train_std)
  /\ pc' = "denormalized"
  /\ UNCHANGED <<inputs, err, locals, lists, draws, rets, stats, dataset, calls, prediction, others>>

NextRoundTrip ==
  \/ NormalizeCall
  \/ DenormalizeCall

SpecRoundTrip == InitRoundTrip /\ [][NextRoundTrip]_vars

\* ------------------------------------------- the train/validation split cell
\* the .tif files under a directory, in name order
Listing(dir, n) == [j \in 1..n |-> [dir |-> dir, name |-> j]]

\* q with its elements number a and b exchanged
Exchanged(q, a, b) ==
  [j \in 1..Len(q) |-> IF j = a THEN q[b] ELSE IF j = b THEN q[a] ELSE q[j]]

\* np.random.permutation(n): the seed fixes one of the orders of range(n)
permutation(n) ==
  {f \in [1..n -> 1..n] : \A a, b \in 1..n : f[a] = f[b] => a = b}

\* np.array(q)[indices]
Take(q, indices) == [j \in 1..Len(indices) |-> q[indices[j]]]

\* all([i.name == j.name for i, j in zip(p, q)])
NamesMatch(p, q) ==
  \A j \in 1..Len(p) : j <= Len(q) => p[j].name = q[j].name

TrainFilesRoundingUp(n) == (8 * n + 9) \div 10

\* int(train_files_percentage * n)
TrainFiles(n) == (8 * n) \div 10

\* q[: c] and q[c :]
UpTo(q, c) == SubSeq(q, 1, c)

From(q, c) == SubSeq(q, c + 1, Len(q))

exceptFiles == <<care, worker, cosdd, training, tests>>

\* rglob lists the two directories, each in the order the file system gives
ListFiles ==
  /\ pc = "list"
  /\ \E n \in 0..MaxFiles :
       /\ image_files' = Listing("low", n)
       /\ \E m \in {n, n - 1} \cap (0..MaxFiles), a, b \in 0..n :
            /\ a <= b
            /\ b <= m
            /\ a = 0 => b = 0
            /\ target_files' = Exchanged(Listing("GT", m), a, b)
  /\ listed' = [images |-> image_files', targets |-> target_files']
  /\ IF Len(image_files') = Len(target_files')
       THEN pc' = "files" /\ UNCHANGED err
       ELSE Raise("AssertionError")
  /\ UNCHANGED <<train_image_files, train_target_files,
                 val_image_files, val_target_files>>
  /\ UNCHANGED exceptFiles

ShuffleImagesOnly ==
  /\ pc = "files"
  /\ \E shuffled_indices \in permutation(Len(image_files)) :
       /\ image_files' = Take(image_files, shuffled_indices)
       /\ target_files' = target_files
  /\ IF NamesMatch(image_files', target_files')
       THEN pc' = "shuffled" /\ UNCHANGED err
       ELSE Raise("AssertionError")
  /\ UNCHANGED <<listed, train_image_files, train_target_files,
                 val_image_files, val_target_files>>
  /\ UNCHANGED exceptFiles

\* both lists are indexed with the same shuffled_indices
ShuffleFiles ==
  /\ pc = "files"
  /\ \E shuffled_indices \in permutation(Len(image_files)) :
       /\ image_files' = Take(image_files, shuffled_indices)
       /\ target_files' = Take(target_files, shuffled_indices)
  /\ IF NamesMatch(image_files', target_files')
       THEN pc' = "shuffled" /\ UNCHANGED err
       ELSE Raise("AssertionError")
  /\ UNCHANGED <<listed, train_image_files, train_target_files,
                 val_image_files, val_target_files>>
  /\ UNCHANGED exceptFiles

SplitFiles ==
  /\ pc = "shuffled"
  /\ train_image_files' = UpTo(image_files, TrainFiles(Len(image_files)))
  /\ train_target_files' = UpTo(target_files, TrainFiles(Len(target_files)))
  /\ val_image_files' = From(image_files, TrainFiles(Len(image_files)))
  /\ val_target_files' = From(target_files, TrainFiles(Len(target_files)))
  /\ IF /\ NamesMatch(train_image_files', train_target_files')
        /\ NamesMatch(val_image_files', val_target_files')
       THEN pc' = "split" /\ UNCHANGED err
       ELSE Raise("AssertionError")
  /\ UNCHANGED <<image_files, target_files, listed>>
  /\ UNCHANGED exceptFiles

InitSplit ==
  /\ image_array = NoArray
  /\ target_array = NoArray
  /\ patch_size = <<>>
  /\ pc = "list"
  /\ PipelineStart
  /\ RestStart

NextSplit ==
  \/ ListFiles
  \/ ShuffleFiles
  \/ SplitFiles

SpecSplit == InitSplit /\ [][NextSplit]_vars

\* --------------------------------------------- the COSDD train/validation split
TrainCountRoundingUp(n) == (9 * n + 9) \div 10

\* int(len(low_snr) * train_split)
TrainCount(n) == (9 * n) \div 10

exceptCosdd == <<care, worker, files, training, tests>>

\* the stack of noisy images, each known by its place in the loaded file
LoadLowSnr ==
  /\ pc = "cosdd"
  /\ \E n \in 0..MaxImages : low_snr' = [j \in 1..n |-> j]
  /\ pc' = "loaded"
  /\ UNCHANGED <<err, train_set, val_set>>
  /\ UNCHANGED exceptCosdd

\* low_snr = low_snr[torch.randperm(len(low_snr))]
PermuteLowSnr ==
  /\ pc = "loaded"
  /\ \E p \in permutation(Len(low_snr)) : low_snr' = Take(low_snr, p)
  /\ pc' = "permuted"
  /\ UNCHANGED <<err, train_set, val_set>>
  /\ UNCHANGED exceptCosdd

SplitLowSnr ==
  /\ pc = "permuted"
  /\ train_set' = UpTo(low_snr, TrainCount(Len(low_snr)))
  /\ val_set' = From(low_snr, TrainCount(Len(low_snr)))
  /\ pc' = "sets"
  /\ UNCHANGED <<err, low_snr>>
  /\ UNCHANGED exceptCosdd

InitCosdd ==
  /\ image_array = NoArray
  /\ target_array = NoArray
  /\ patch_size = <<>>
  /\ pc = "cosdd"
  /\ PipelineStart
  /\ RestStart

NextCosdd ==
  \/ LoadLowSnr
  \/ PermuteLowSnr
  \/ SplitLowSnr

SpecCosdd == InitCosdd /\ [][NextCosdd]_vars

\* ------------------------------------------------------- the training loop
n_epochs == 10

exceptTraining == <<care, worker, files, cosdd, loaders, tests>>

\* model(batch): what the network gives for batch b of a phase of an epoch
\* depends on the weights, which change with every optimizer step, and on
\* the mode the model is in
model(e, phase, b) ==
  [epoch |-> e, phase |-> phase, i |-> b, updates |-> updates, mode |-> mode]

\* loss(output, target), a zero-dimensional tensor
loss(o) == [kind |-> "tensor", of |-> o]

\* val_loss = 0
IntZero == [kind |-> "int", value |-> 0]

\* x.item(): the Python number a zero-dimensional tensor holds
Item(x) == [kind |-> "float", of |-> x.of]

\* what a step of the loop did, on which batch and in which mode
Event(op, phase) == [op |-> op, phase |-> phase, i |-> batch_i, mode |-> mode]

TrainingCell ==
  /\ pc = "train_cell"
  /\ train_losses' = <<>>
  /\ val_losses' = <<>>
  /\ pc' = "for_epoch"
  /\ UNCHANGED <<err, epoch, batch_i, mode, grads, updates, output, train_loss,
                 val_loss, events>>
  /\ UNCHANGED exceptTraining

ForEpochKeepingMode ==
  /\ pc = "for_epoch"
  /\ IF epoch + 1 < n_epochs
       THEN /\ epoch' = epoch + 1
            /\ batch_i' = 0 - 1
            /\ events' = <<>>
            /\ pc' = "for_train_batch"
       ELSE /\ pc' = "trained"
            /\ UNCHANGED <<epoch, batch_i, events>>
  /\ UNCHANGED <<err, mode, grads, updates, output, train_loss, val_loss,
                 train_losses, val_losses>>
  /\ UNCHANGED exceptTraining

\* for epoch in range(n_epochs): model.train()
ForEpoch ==
  /\ pc = "for_epoch"
  /\ IF epoch + 1 < n_epochs
       THEN /\ epoch' = epoch + 1
            /\ mode' = "train"
            /\ batch_i' = 0 - 1
            /\ events' = <<>>
            /\ pc' = "for_train_batch"
       ELSE /\ pc' = "trained"
            /\ UNCHANGED <<epoch, mode, batch_i, events>>
  /\ UNCHANGED <<err, grads, updates, output, train_loss, val_loss,
                 train_losses, val_losses>>
  /\ UNCHANGED exceptTraining

\* the next training batch, or after the last one model.eval() and, under
\* no_grad, val_loss = 0
ForTrainBatch ==
  /\ pc = "for_train_batch"
  /\ IF batch_i + 1 < n_train_batches
       THEN /\ batch_i' = batch_i + 1
            /\ pc' = "zero_grad"
            /\ UNCHANGED <<mode, val_loss>>
       ELSE /\ mode' = "eval"
            /\ val_loss' = IntZero
            /\ batch_i' = 0 - 1
            /\ pc' = "for_val_batch"
  /\ UNCHANGED <<err, epoch, grads, updates, output, train_loss,
                 train_losses, val_losses, events>>
  /\ UNCHANGED exceptTraining

\* optimizer.zero_grad()
ZeroGrad ==
  /\ pc = "zero_grad"
  /\ grads' = "zero"
  /\ events' = Append(events, Event("zero_grad", "train"))
  /\ pc' = "forward"
  /\ UNCHANGED <<err, epoch, batch_i, mode, updates, output, train_loss, val_loss,
                 train_losses, val_losses>>
  /\ UNCHANGED exceptTraining

\* output = model(batch)
Forward ==
  /\ pc = "forward"
  /\ output' = model(epoch, "train", batch_i)
  /\ events' = Append(events, Event("forward", "train"))
  /\ pc' = "loss"
  /\ UNCHANGED <<err, epoch, batch_i, mode, grads, updates, train_loss, val_loss,
                 train_losses, val_losses>>
  /\ UNCHANGED exceptTraining

\* train_loss = loss(output, target)
TrainLoss ==
  /\ pc = "loss"
  /\ train_loss' = loss(output)
  /\ events' = Append(events, Event("loss", "train"))
  /\ pc' = "backward"
  /\ UNCHANGED <<err, epoch, batch_i, mode, grads, updates, output, val_loss,
                 train_losses, val_losses>>
  /\ UNCHANGED exceptTraining

\* train_loss.backward()
Backward ==
  /\ pc = "backward"
  /\ grads' = "computed"
  /\ events' = Append(events, Event("backward", "train"))
  /\ pc' = "step"
  /\ UNCHANGED <<err, epoch, batch_i, mode, updates, output, train_loss, val_loss,
                 train_losses, val_losses>>
  /\ UNCHANGED exceptTraining

\* optimizer.step()
OptimizerStep ==
  /\ pc = "step"
  /\ updates' = updates + 1
  /\ events' = Append(events, Event("step", "train"))
  /\ pc' = "for_train_batch"
  /\ UNCHANGED <<err, epoch, batch_i, mode, grads, output, train_loss, val_loss,
                 train_losses, val_losses>>
  /\ UNCHANGED exceptTraining

ForValBatchKeepingFirst ==
  /\ pc = "for_val_batch"
  /\ IF batch_i + 1 < n_val_batches
       THEN /\ batch_i' = batch_i + 1
            /\ output' = model(epoch, "val", batch_i')
            /\ val_loss' = IF val_loss = IntZero THEN loss(output') ELSE val_loss
            /\ events' = events \o <<[Event("forward", "val") EXCEPT !.i = batch_i'],
                                     [Event("loss", "val") EXCEPT !.i = batch_i']>>
            /\ UNCHANGED pc
       ELSE /\ pc' = "log"
            /\ UNCHANGED <<batch_i, output, val_loss, events>>
  /\ UNCHANGED <<err, epoch, mode, grads, updates, train_loss,
                 train_losses, val_losses>>
  /\ UNCHANGED exceptTraining

\* the next validation batch: output = model(batch);
\* val_loss = loss(output, target)
ForValBatch ==
  /\ pc = "for_val_batch"
  /\ IF batch_i + 1 < n_val_batches
       THEN /\ batch_i' = batch_i + 1
            /\ output' = model(epoch, "val", batch_i')
            /\ val_loss' = loss(output')
            /\ events' = events \o <<[Event("forward", "val") EXCEPT !.i = batch_i'],
                                     [Event("loss", "val") EXCEPT !.i = batch_i']>>
            /\ UNCHANGED pc
       ELSE /\ pc' = "log"
            /\ UNCHANGED <<batch_i, output, val_loss, events>>
  /\ UNCHANGED <<err, epoch, mode, grads, updates, train_loss,
                 train_losses, val_losses>>
  /\ UNCHANGED exceptTraining

\* the tensorboard calls read train_loss first, and the print calls
\* val_loss.item()
LogEpoch ==
  /\ pc = "log"
  /\ IF train_loss = Undefined
       THEN Raise("NameError")
       ELSE IF val_loss.kind = "int"
              THEN Raise("AttributeError")
              ELSE pc' = "append" /\ UNCHANGED err
  /\ UNCHANGED training
  /\ UNCHANGED <<care, worker, files, cosdd, tests>>

\* train_losses.append(train_loss.item()); val_losses.append(val_loss.item())
AppendLosses ==
  /\ pc = "append"
  /\ train_losses' = Append(train_losses, Item(train_loss))
  /\ val_losses' = Append(val_losses, Item(val_loss))
  /\ pc' = "for_epoch"
  /\ UNCHANGED <<err, epoch, batch_i, mode, grads, updates, output, train_loss,
                 val_loss, events>>
  /\ UNCHANGED exceptTraining

\* the loaders of the training cell yield any number of batches, none included
InitTrain ==
  /\ image_array = NoArray
  /\ target_array = NoArray
  /\ patch_size = <<>>
  /\ pc = "train_cell"
  /\ PipelineStart
  /\ WorkersStart
  /\ FilesStart
  /\ CosddStart
  /\ n_train_batches \in 0..MaxBatches
  /\ n_val_batches \in 0..MaxBatches
  /\ TrainingStart
  /\ TestsStart

NextTrain ==
  \/ TrainingCell
  \/ ForEpoch
  \/ ForTrainBatch
  \/ ZeroGrad
  \/ Forward
  \/ TrainLoss
  \/ Backward
  \/ OptimizerStep
  \/ ForValBatch
  \/ LogEpoch
  \/ AppendLosses

SpecTrain == InitTrain /\ [][NextTrain]_vars

\* ----------------------------------------------------------- the test dataset
\* test_dataset = CAREDataset(image_data=test_images_array,
\*                            target_data=test_targets_array)
CAREDataset_init_test ==
  /\ pc = "statistics"
  /\ image_data' = test_images_array
  /\ target_data' = test_targets_array
  /\ patch_augment' = FALSE
  /\ pc' = "dataset"
  /\ UNCHANGED <<inputs, err, locals, lists, draws, rets, stats, calls, shown, others>>

\* the training stacks as in the other specifications, cut into patches of the
\* sample's size, and test stacks of any number of images of any shape
InitTest ==
  /\ InitInputs
  /\ patch_size = Tail(image_array.shape)
  /\ pc = "for_s"
  /\ PipelineStart
  /\ WorkersStart
  /\ FilesStart
  /\ CosddStart
  /\ n_train_batches = 0
  /\ n_val_batches = 0
  /\ TrainingStart
  /\ \E shape \in SampleShapes, nt \in 0..MaxSamples :
       /\ test_images_array = Held(Arange(<<nt>> \o shape, 3), "test_images_array")
       /\ test_targets_array = Held(Arange(<<nt>> \o shape, 13), "test_targets_array")

NextTest ==
  \/ ForSample
  \/ ForPatch
  \/ DrawCoord
  \/ CutPatch
  \/ Return
  \/ StatisticsCell
  \/ CAREDataset_init_test
  \/ Length
  \/ GetItem
  \/ Discard

SpecTest == InitTest /\ [][NextTest]_vars

\* ================================================================ claims
SampleShape == Tail(image_array.shape)
NumSamples == image_array.shape[1]
NumTargets == target_array.shape[1]

\* the samples have exactly the axes patch_size names
SameDimensionality == Len(patch_size) = Len(SampleShape)

PatchFits ==
  /\ SameDimensionality
  /\ \A a \in 1..Len(patch_size) : patch_size[a] <= SampleShape[a]

\* ceil(v / p): the least n with n * p >= v
Ceil(v, p) == CHOOSE n \in 0..v : n * p >= v /\ (n - 1) * p < v

ExpectedCount == Ceil(Prod(SampleShape), Prod(patch_size))

PatchesOf(x) == {i \in 1..Len(log) : log[i].s = x}

ElementAt(a, idx) == a.data[1 + Ravel(idx, a.shape)]

Inside(a, idx) == \A x \in 1..Len(idx) : 0 <= idx[x] /\ idx[x] < a.shape[x]

\* where in the stack the j-th element of a patch of shape pshape lies, when
\* the patch was cut from sample x at the offsets coords of its trailing axes
SourceIndex(x, coords, pshape, j) ==
  LET r    == Len(pshape)
      lead == r - Len(coords)
      idx  == Unravel(j - 1, pshape)
  IN  <<x>> \o [a \in 1..r |-> idx[a] + (IF a <= lead THEN 0 ELSE coords[a - lead])]

\* the j-th element of the patch p is the element of the stack a that lies at
\* the offsets coords in sample x
CutAt(p, j, a, x, coords) ==
  LET idx == SourceIndex(x, coords, p.shape, j)
  IN  Inside(a, idx) /\ p.data[j] = ElementAt(a, idx)

Elements(a) == {a.data[j] : j \in 1..Len(a.data)}

\* C1: for a patch size of the samples' dimensionality that fits the sample on
\* every axis, every sample whose extraction has finished yielded exactly
\* ceil(prod(sampleShape) / prod(patchSize)) patch pairs, a number >= 1; a
\* call that returned has finished every sample, and with a matching
\* non-empty target stack the call raises nothing.
C1_PatchCount ==
  PatchFits =>
    /\ ExpectedCount >= 1
    /\ \A x \in 0..(s - 1) : Cardinality(PatchesOf(x)) = ExpectedCount
    /\ Len(image_patches) = Len(log)
    /\ Len(target_patches) = Len(log)
    /\ pc = "returned" => s = NumSamples /\ images_patches.shape[1] = NumSamples * ExpectedCount
    /\ (NumSamples >= 1 /\ target_array.shape = image_array.shape) => err = "none"

C1_Witness ==
  /\ pc = "returned"
  /\ PatchFits
  /\ Prod(SampleShape) % Prod(patch_size) # 0
  /\ Cardinality(PatchesOf(0)) = 2

\* C2: every pair is cut from one sample index at one offset: each element of
\* the noisy patch and of the target patch is the element of its stack at the
\* logged sample and offset; for identical stacks the two patches are equal.
C2_Alignment ==
  /\ Len(image_patches) = Len(log)
  /\ Len(target_patches) = Len(log)
  /\ \A i \in 1..Len(log) :
       /\ \A j \in 1..Len(image_patches[i].data) :
            CutAt(image_patches[i], j, image_array, log[i].s, log[i].coords)
       /\ \A j \in 1..Len(target_patches[i].data) :
            CutAt(target_patches[i], j, target_array, log[i].s, log[i].coords)
       /\ Values(image_array) = Values(target_array) => image_patches[i] = target_patches[i]

C2_Witness ==
  /\ pc = "returned"
  /\ Values(image_array) = Values(target_array)
  /\ \E i \in 1..Len(log) :
       /\ \E a \in 1..Len(log[i].coords) : log[i].coords[a] > 0
       /\ image_patches[i].data # <<>>
       /\ image_patches[i] = target_patches[i]

\* C3: for samples of the patch size's dimensionality every offset drawn lies
\* in [0, dimSize - patchSize[axis]], so the patch ends inside the sample and
\* has shape exactly patchSize.
C3_OffsetRange ==
  SameDimensionality =>
    /\ \A a \in 1..Len(crop_coords) :
         crop_coords[a] \in 0..(SampleShape[a] - patch_size[a])
    /\ \A i \in 1..Len(log) :
         /\ \A a \in 1..Len(patch_size) :
              /\ log[i].coords[a] >= 0
              /\ log[i].coords[a] + patch_size[a] <= SampleShape[a]
         /\ image_patches[i].shape = patch_size
         /\ Tail(target_array.shape) = SampleShape => target_patches[i].shape = patch_size

\* both endpoints of the interval are drawn
C3_Witness ==
  /\ SameDimensionality
  /\ \E a \in 1..Len(patch_size), i \in 1..Len(log), j \in 1..Len(log) :
       /\ SampleShape[a] - patch_size[a] > 0
       /\ log[i].coords[a] = 0
       /\ log[j].coords[a] = SampleShape[a] - patch_size[a]

\* the sample a value of the noisy / of the target stack lies in
ImageSampleOf(v) == v \div Prod(SampleShape)
TargetSampleOf(v) == (v - target_array.data[1]) \div Prod(Tail(target_array.shape))

\* C5: the two sequences have one length, patches of an earlier sample precede
\* those of a later one, position i of both sequences holds values of the same
\* sample, and the returned stacks keep the lists' length and order.
C5_SampleMajor ==
  /\ Len(image_patches) = Len(target_patches)
  /\ \A i \in 1..Len(image_patches) : \A j \in i..Len(image_patches) :
       \A u \in Elements(image_patches[i]), v \in Elements(image_patches[j]) :
         ImageSampleOf(u) <= ImageSampleOf(v)
  /\ \A i \in 1..Len(image_patches) :
       \A u \in Elements(image_patches[i]), v \in Elements(target_patches[i]) :
         ImageSampleOf(u) = TargetSampleOf(v)
  /\ pc = "returned" =>
       /\ images_patches.shape[1] = Len(image_patches)
       /\ targets_patches.shape[1] = Len(image_patches)
       /\ \A i \in 1..Len(image_patches) :
            /\ Values(Sub(images_patches, i - 1)) = Values(image_patches[i])
            /\ Values(Sub(targets_patches, i - 1)) = Values(target_patches[i])

C5_Witness ==
  /\ pc = "returned"
  /\ Len(log) = 2
  /\ log[1].s = 0
  /\ log[2].s = 1
  /\ Elements(image_patches[1]) # Elements(image_patches[2])

Oversized ==
  /\ SameDimensionality
  /\ \E a \in 1..Len(patch_size) : patch_size[a] > SampleShape[a]

FirstOversized ==
  CHOOSE a \in 1..Len(patch_size) :
    /\ patch_size[a] > SampleShape[a]
    /\ \A b \in 1..(a - 1) : patch_size[b] <= SampleShape[b]

\* C6 as stated: a patch dimension larger than the sample dimension makes the
\* extraction fail before any random offset has been drawn.
C6_FailsBeforeAnyDraw ==
  Oversized => pc # "returned" /\ draws = 0

\* C6: with a patch dimension larger than the sample dimension the extraction
\* never returns and cuts no patch; the error is the ValueError of the offset
\* draw of the first oversized axis, raised after the offsets of the axes
\* before it have been drawn.
C6_FailsAtFirstOversizedDraw ==
  Oversized =>
    /\ pc # "returned"
    /\ image_patches = <<>>
    /\ target_patches = <<>>
    /\ draws <= FirstOversized - 1
    /\ (pc = "raised" /\ NumSamples >= 1 /\ NumTargets >= 1) =>
         err = "ValueError" /\ draws = FirstOversized - 1

C6_Witness ==
  /\ Oversized
  /\ pc = "raised"
  /\ err = "ValueError"
  /\ draws = 1

\* C7: when either stack has no sample the extraction raises at its first step
\* and returns nothing.
C7_EmptyStack ==
  (NumSamples = 0 \/ NumTargets = 0) =>
    /\ pc \in {"for_s", "raised"}
    /\ draws = 0
    /\ image_patches = <<>>
    /\ images_patches = NoArray
    /\ targets_patches = NoArray

C7_Witness ==
  /\ NumSamples >= 1
  /\ NumTargets = 0
  /\ pc = "raised"
  /\ err = "IndexError"

\* C8 as stated: stacks of different shapes make the extraction raise before
\* any random offset is drawn, and it never returns patch pairs for them.
C8_ShapeMismatchRaises ==
  target_array.shape # image_array.shape => pc # "returned" /\ draws = 0

\* C4: the length of a dataset built on the output of create_patches is the
\* sum over the samples of the patch count, a function of the inputs alone,
\* and neither the dataset nor any length() answer changes under calls.
C4_Length ==
  pc \in {"dataset", "called"} =>
    /\ CAREDataset_len = NumSamples * ExpectedCount
    /\ CAREDataset_len = Len(log)
    /\ image_data = images_patches
    /\ target_data = targets_patches
    /\ length # NoLength => length = NumSamples * ExpectedCount

C4_Witness ==
  /\ pc = "called"
  /\ length = 2
  /\ NumSamples = 1

Called == pc = "called" /\ item.status # "none"

SwapLast(shape) ==
  [x \in 1..Len(shape) |->
     IF x = Len(shape) - 1 THEN shape[Len(shape)]
     ELSE IF x = Len(shape) THEN shape[Len(shape) - 1]
     ELSE shape[x]]

QuarterTurn == patch_augment /\ item.t \in {"rot90", "rot270"}

C11_SameIndexSamePair ==
  (Called /\ item.status = "ok" /\ kept.status = "ok"
     /\ kept.index = item.index /\ ~ patch_augment) =>
    /\ item.patch = kept.patch
    /\ item.target = kept.target

C11_Witness ==
  /\ Called
  /\ item.status = "ok"
  /\ kept.status = "ok"
  /\ kept.index = item.index
  /\ ~ patch_augment
  /\ item.patch = kept.patch
  /\ \E a \in 1..Len(patch_size) : SampleShape[a] > patch_size[a]

\* the position in the extraction log of the pair a valid index retrieves
LogEntryOf(index) ==
  log[(IF index < 0 THEN index + Len(log) ELSE index) + 1]

\* C12 as stated: every retrieval of an index draws its offset anew.
C12_ResampledOnRetrieval ==
  [][(pc = "dataset" /\ pc' = "called" /\ item'.status = "ok")
       => draws' > draws]_vars

\* C12: the offset backing an index is drawn once, by create_patches; a
\* retrieval draws nothing and, without augmentation, returns the patch cut
\* at the offset the extraction logged for that index.
C12_OffsetFixedAtExtraction ==
  [][/\ (pc \in {"returned", "statistics", "dataset", "called"}) =>
          (draws' = draws /\ log' = log)
     /\ (pc = "dataset" /\ pc' = "called" /\ item'.status = "ok"
           /\ ~ patch_augment) =>
          LET e == LogEntryOf(item'.index)
          IN  item'.patch =
                ToOutput(normalize(CutFrom(Sub(image_array, e.s), e.coords,
                                           patch_size),
                                   train_mean, train_std))]_vars

C12_Witness ==
  /\ Called
  /\ item.status = "ok"
  /\ ~ patch_augment
  /\ \E a \in 1..Len(patch_size) : LogEntryOf(item.index).coords[a] > 0

RECURSIVE SquaredDeviations(_, _, _)
SquaredDeviations(q, N, S) ==
  IF q = <<>> THEN 0
  ELSE (N * Head(q) - S) * (N * Head(q) - S) + SquaredDeviations(Tail(q), N, S)

\* mean is the mean and std the standard deviation of the elements of stack a
StatisticsOf(a, mean, std) ==
  LET N == Len(a.data)
      S == Sum(a.data)
  IN  /\ mean.n * N = mean.d * S
      /\ std.sq.n * N * N * N = std.sq.d * SquaredDeviations(a.data, N, S)

\* element e is (x - mean) / std
NormalizedFrom(e, x, mean, std) ==
  /\ e.kind = "num"
  /\ e.num.n * mean.d = (x * mean.d - mean.n) * e.num.d
  /\ e.sq = std.sq
  /\ std.sq.n # 0

\* array out is the stored patch number i of a, normalized element by element,
\* behind a leading axis of size 1
NormalizedPatch(out, a, i, mean, std) ==
  LET inner == Prod(Tail(a.shape))
  IN  /\ out.shape = <<1>> \o Tail(a.shape)
      /\ Len(out.data) = inner
      /\ \A j \in 1..inner :
           j <= Len(out.data) /\ i * inner + j <= Len(a.data) =>
             NormalizedFrom(out.data[j], a.data[i * inner + j], mean, std)

\* C14: with augmentation disabled getItem(i) returns the stored noisy patch
\* i minus the noisy stack's mean over the noisy stack's std, and the stored
\* target patch i minus the target stack's mean over the target stack's std,
\* each behind a leading axis of size 1.
C14_NormalizedPair ==
  (Called /\ item.status = "ok" /\ ~ patch_augment) =>
    LET n == image_data.shape[1]
        i == IF item.index < 0 THEN item.index + n ELSE item.index
    IN  /\ StatisticsOf(image_array, train_mean, train_std)
        /\ StatisticsOf(target_array, target_mean, target_std)
        /\ NormalizedPatch(item.patch, image_data, i, train_mean, train_std)
        /\ NormalizedPatch(item.target, target_data, i, target_mean, target_std)

C14_Witness ==
  /\ Called
  /\ item.status = "ok"
  /\ ~ patch_augment
  /\ item.index = 1
  /\ train_mean # target_mean
  /\ Len(item.patch.data) > 1

\* array out holds the values of array a, element by element
SameValues(out, a) ==
  /\ out.shape = a.shape
  /\ Len(out.data) = Len(a.data)
  /\ \A j \in 1..Len(a.data) :
       j <= Len(out.data) =>
         /\ out.data[j].kind = "num"
         /\ out.data[j].val = [n |-> a.data[j], d |-> 1]

\* C15: for a non-zero std, denormalize(normalize(a, m, s), m, s) holds the
\* values of a, and normalize(a, m, s) holds (a - m) / s.
C15_RoundTrip ==
  /\ (pc = "normalized" /\ train_std.sq.n # 0) =>
       /\ item.patch.shape = image_array.shape
       /\ Len(item.patch.data) = Len(image_array.data)
       /\ \A j \in 1..Len(image_array.data) :
            j <= Len(item.patch.data) =>
              NormalizedFrom(item.patch.data[j], image_array.data[j],
                             train_mean, train_std)
  /\ (pc = "denormalized" /\ train_std.sq.n # 0) =>
       SameValues(test_image, image_array)

C15_Witness ==
  /\ pc = "denormalized"
  /\ train_std.sq.n # 0
  /\ train_std.sq # [n |-> 1, d |-> 1]
  /\ train_mean.n < 0
  /\ Len(image_array.data) > 1
  /\ SameValues(test_image, image_array)

\* all elements of the stack have one value
IsConstant(a) == \A j, j2 \in 1..Len(a.data) : a.data[j] = a.data[j2]

\* every element of the array is a finite number
AllFinite(a) == \A j \in 1..Len(a.data) : a.data[j].kind = "num"

\* C16: when the noisy or the target training stack is constant, every
\* retrieval of a stored pair fails with DegenerateStatisticsError and returns
\* nothing; a pair that is returned has finite elements only and was divided
\* by a non-zero std.
C16_DegenerateStatistics ==
  Called =>
    /\ (item.status # "IndexError"
          /\ (IsConstant(image_array) \/ IsConstant(target_array))) =>
         /\ item.status = "DegenerateStatisticsError"
         /\ item.patch = NoArray
         /\ item.target = NoArray
    /\ item.status = "ok" =>
         /\ train_std.sq.n # 0
         /\ target_std.sq.n # 0
         /\ AllFinite(item.patch)
         /\ AllFinite(item.target)

C16_Witness ==
  /\ Called
  /\ item.status = "DegenerateStatisticsError"
  /\ IsConstant(image_array)
  /\ ~ IsConstant(target_array)
  /\ Len(image_array.data) > 1

\* the statistics cell has run
StatisticsComputed == pc \in {"statistics", "dataset", "called", "predicted"}

\* the four statistics are those of the whole training stacks
StatisticsOfStacks ==
  /\ StatisticsOf(image_array, train_mean, train_std)
  /\ StatisticsOf(target_array, target_mean, target_std)

\* C17 as stated: the statistics of the whole stacks are there before any
\* patch is extracted.
C17_StatisticsBeforeExtraction ==
  Len(log) > 0 => StatisticsOfStacks

\* C17: the statistics of each role are computed in one step, over the whole
\* un-patched training stack, after create_patches has returned the patches
\* and before a dataset exists; until then they hold nothing.
C17_StatisticsAfterExtraction ==
  /\ StatisticsComputed =>
       /\ StatisticsOfStacks
       /\ images_patches # NoArray
       /\ targets_patches # NoArray
  /\ ~ StatisticsComputed =>
       /\ stats = <<Zero, Sqrt(Zero), Zero, Sqrt(Zero)>>
       /\ image_data = NoArray

C17_Witness ==
  /\ pc = "statistics"
  /\ StatisticsOfStacks
  /\ Len(log) = 2
  /\ train_std.sq.n # 0
  /\ Mean(images_patches) # train_mean

\* the array's elements were all divided by the std of this variance
DividedBy(a, variance) == \A j \in 1..Len(a.data) : a.data[j].sq = variance

\* C18: once computed, the four statistics are never assigned again; every
\* pair a dataset returns is normalized with them, and the prediction loop
\* denormalizes with values among them.
C18_StatisticsImmutable ==
  [][/\ StatisticsComputed => stats' = stats
     /\ (pc = "dataset" /\ pc' = "called" /\ item'.status = "ok") =>
          /\ StatisticsOfStacks
          /\ DividedBy(item'.patch, train_std.sq)
          /\ DividedBy(item'.target, target_std.sq)
          /\ ~ patch_augment =>
               item' = CAREDataset_getitem(item'.index, "identity")
     /\ (pc = "called" /\ pc' = "predicted") =>
          /\ StatisticsOfStacks
          /\ test_image' = denormalize(NewAxis(item.patch), train_mean, train_std)
          /\ prediction' \in {denormalize(NewAxis(item.patch), train_mean, train_std),
                              denormalize(NewAxis(item.target), train_mean, train_std)}]_vars

C18_Witness ==
  /\ pc = "predicted"
  /\ StatisticsOfStacks
  /\ train_mean # target_mean
  /\ prediction = denormalize(NewAxis(item.target), train_mean, train_std)
  /\ Len(test_image.data) > 1

\* C19: no step of create_patches, whether the call goes on to return or to
\* fail, changes an element, the shape or the type of either source stack.
C19_SourceStacksUnchanged ==
  [][(pc \in {"for_s", "for_p", "draw"} \/ pc' \in {"returned", "raised"}) =>
       /\ image_array' = image_array
       /\ target_array' = target_array]_vars

C19_Witness ==
  /\ pc \in {"returned", "raised"}
  /\ Len(log) = 2
  /\ log[2].s = 1
  /\ image_array = Held(Arange(image_array.shape, 0), "image_array")
  /\ target_array = Held(Arange(target_array.shape, 10), "target_array")

\* C20: a write into a patch that create_patches returned changes that patch
\* alone, neither source stack nor another patch; the arrays getItem returns
\* occupy memory of their own, so a write into one changes no stored patch
\* and no stack, and a later getItem returns the stored patch, normalized.
C20_FreshCopies ==
  [][/\ Values(image_array') = Values(image_array)
     /\ Values(target_array') = Values(target_array)
     /\ (pc = "returned" /\ pc' = "mutated") =>
          /\ targets_patches' = targets_patches
          /\ \E i \in 0..(images_patches.shape[1] - 1) :
               \A i2 \in 0..(images_patches.shape[1] - 1) :
                 i2 # i => Sub(images_patches', i2) = Sub(images_patches, i2)
     /\ (pc = "called" /\ pc' = "called") =>
          /\ Values(image_data') = Values(image_data)
          /\ Values(target_data') = Values(target_data)
          /\ Values(images_patches') = Values(images_patches)
          /\ Values(targets_patches') = Values(targets_patches)
     /\ (pc = "dataset" /\ pc' = "called" /\ item'.status = "ok") =>
          /\ item'.patch.mem = "own"
          /\ item'.target.mem = "own"
          /\ ~ patch_augment =>
               LET n == image_data.shape[1]
                   i == IF item'.index < 0 THEN item'.index + n ELSE item'.index
               IN  NormalizedPatch(item'.patch, image_data, i, train_mean, train_std)]_vars

C20_Witness ==
  /\ pc = "called"
  /\ item.status = "ok"
  /\ ~ patch_augment
  /\ Len(item.patch.data) > 1
  /\ item.patch.data # CAREDataset_getitem(item.index, "identity").patch.data
  /\ item.patch.data = Reversed(CAREDataset_getitem(item.index, "identity").patch.data)
  /\ image_data = images_patches

\* C21: while workers retrieve in any interleaving, with or without
\* augmentation, the stored noisy and target patches stay what create_patches
\* returned, and the pair a worker computes is the pair a lone call with its
\* index (and its transform) returns.
C21_Reentrant ==
  pc \in {"dataset", "called"} =>
    /\ Values(image_data) = Values(Stack(image_patches))
    /\ Values(target_data) = Values(Stack(target_patches))
    /\ item.status # "none" =>
         /\ patch_augment \/ item.t = "identity"
         /\ item = CAREDataset_getitem(item.index, item.t)

C21_Witness ==
  /\ pc = "called"
  /\ item.status = "ok"
  /\ patch_augment
  /\ item.t = "rot180"
  /\ worker[1].pc = "fetched"
  /\ worker[2].pc = "idle"
  /\ worker[1].index = item.index
  /\ Len(item.patch.data) > 1

\* C22: when patch_size is the samples' shape, create_patches cuts exactly
\* one pair from every sample it has gone through, at offset 0 on every axis,
\* and the pair holds the whole noisy sample and (for a target stack of the
\* same sample shape) the whole target sample, as 32-bit floats.
C22_WholeSample ==
  patch_size = SampleShape =>
    /\ \A x \in 0..(s - 1) : Cardinality(PatchesOf(x)) = 1
    /\ Len(image_patches) = Len(log)
    /\ Len(target_patches) = Len(log)
    /\ pc = "returned" => Len(log) = NumSamples
    /\ \A i \in 1..Len(log) :
         /\ \A a \in 1..Len(patch_size) : log[i].coords[a] = 0
         /\ (i <= Len(image_patches) /\ log[i].s < NumSamples) =>
              Values(image_patches[i]) =
                [shape |-> SampleShape, dtype |-> "float32",
                 data  |-> Sub(image_array, log[i].s).data]
         /\ (i <= Len(target_patches) /\ log[i].s < NumTargets
               /\ Tail(target_array.shape) = SampleShape) =>
              Values(target_patches[i]) =
                [shape |-> SampleShape, dtype |-> "float32",
                 data  |-> Sub(target_array, log[i].s).data]

C22_Witness ==
  /\ patch_size = SampleShape
  /\ Prod(patch_size) > 1
  /\ pc = "returned"
  /\ Len(log) = 2
  /\ Values(target_patches[2]) =
       [shape |-> SampleShape, dtype |-> "float32",
        data  |-> Sub(target_array, 1).data]
  /\ target_array.data[1] = 10

\* the axes a sample has before the ones patch_size names
LeadingAxes == Len(SampleShape) - Len(patch_size)

\* C23 as stated: also for samples with more axes than patch_size, the offset
\* drawn for the k-th patch axis keeps the k-th slice inside the trailing axis
\* it is applied to, and every patch has the full patch size on every patch
\* axis.
C23_OffsetBoundedByItsAxis ==
  LeadingAxes >= 0 =>
    \A i \in 1..Len(log) :
      /\ \A a \in 1..Len(patch_size) :
           /\ log[i].coords[a] >= 0
           /\ log[i].coords[a] + patch_size[a] <= SampleShape[LeadingAxes + a]
      /\ i <= Len(image_patches) =>
           \A a \in 1..Len(patch_size) :
             image_patches[i].shape[LeadingAxes + a] = patch_size[a]


\* the two lists as rglob listed them were pairwise aligned
ListedAligned ==
  /\ Len(listed.images) = Len(listed.targets)
  /\ NamesMatch(listed.images, listed.targets)

\* C24: when the listed image and target files are pairwise aligned, the
\* shuffle and the cut at int(0.8 * n) raise nothing and keep them aligned:
\* the training lists are the first int(0.8 * n) files of each shuffled list,
\* the validation lists are the rest, and at every position the image and the
\* target of a list have the same name.
C24_SplitKeepsAlignment ==
  ListedAligned =>
    /\ pc # "raised"
    /\ pc \in {"shuffled", "split"} =>
         /\ Len(image_files) = Len(target_files)
         /\ NamesMatch(image_files, target_files)
         /\ {image_files[j].name : j \in 1..Len(image_files)} =
              {listed.images[j].name : j \in 1..Len(listed.images)}
    /\ pc = "split" =>
         /\ Len(train_image_files) = (8 * Len(image_files)) \div 10
         /\ Len(train_target_files) = Len(train_image_files)
         /\ Len(val_target_files) = Len(val_image_files)
         /\ train_image_files \o val_image_files = image_files
         /\ train_target_files \o val_target_files = target_files
         /\ \A i \in 1..Len(train_image_files) :
              train_image_files[i].name = train_target_files[i].name
         /\ \A i \in 1..Len(val_image_files) :
              val_image_files[i].name = val_target_files[i].name

C24_Witness ==
  /\ ListedAligned
  /\ pc = "split"
  /\ Len(train_image_files) = 4
  /\ Len(val_image_files) = 1
  /\ image_files # listed.images
  /\ val_image_files[1].name = 2
  /\ val_target_files[1] = [dir |-> "GT", name |-> 2]


\* the images a sequence of the stack holds
ImagesOf(q) == {q[j] : j \in 1..Len(q)}

\* C25: after the COSDD split the training set is the first int(n * 0.9)
\* images of the permuted stack and the validation set is the rest: no image
\* is in both, every image of the stack is in one of them exactly once, and
\* the validation set is not empty when there is at least one image.
C25_CosddSplit ==
  pc = "sets" =>
    LET n == Len(low_snr)
    IN  /\ ImagesOf(low_snr) = 1..n
        /\ Len(train_set) = (9 * n) \div 10
        /\ train_set = SubSeq(low_snr, 1, Len(train_set))
        /\ val_set = SubSeq(low_snr, Len(train_set) + 1, n)
        /\ ImagesOf(train_set) \cap ImagesOf(val_set) = {}
        /\ ImagesOf(train_set) \cup ImagesOf(val_set) = 1..n
        /\ Len(train_set) + Len(val_set) = n
        /\ n >= 1 => Len(val_set) >= 1

C25_Witness ==
  /\ pc = "sets"
  /\ Len(low_snr) = 5
  /\ low_snr # <<1, 2, 3, 4, 5>>
  /\ Len(train_set) = 4
  /\ val_set = <<3>>


\* C26 as stated: the noisy batch is denormalized with the noisy stack's mean
\* and std, and the network's output, which lives in the value space of the
\* normalized targets, is denormalized with the target stack's mean and std.
C26_DenormalizedByRole ==
  pc = "predicted" =>
    /\ test_image = denormalize(NewAxis(item.patch), train_mean, train_std)
    /\ \E model_output \in {NewAxis(item.patch), NewAxis(item.target)} :
         prediction = denormalize(model_output, target_mean, target_std)


\* the steps of one training batch, in the order the claim gives
StepOrder == <<"zero_grad", "forward", "loss", "backward", "step">>

\* the steps the current epoch took so far on training batch b, in order
TrainSteps(b) ==
  LET OnBatch(e) == e.phase = "train" /\ e.i = b
      sel == SelectSeq(events, OnBatch)
  IN  [j \in 1..Len(sel) |-> sel[j].op]

\* the loop stands inside the body of a training batch
InTrainBatch == pc \in {"zero_grad", "forward", "loss", "backward", "step"}

\* C27: in every epoch of the training loop every training batch is complete
\* before the first validation batch starts; each training batch takes the
\* steps zero_grad, forward, loss, backward, optimizer step in this order,
\* with the model in training mode; each validation batch runs with the model
\* in evaluation mode and takes no zero_grad, backward or optimizer step.
C27_EpochOrder ==
  /\ \A a, b \in 1..Len(events) :
       events[a].phase = "train" /\ events[b].phase = "val" => a < b
  /\ \A a \in 1..Len(events) :
       /\ events[a].phase = "train" => events[a].mode = "train"
       /\ events[a].phase = "val" =>
            /\ events[a].mode = "eval"
            /\ events[a].op \in {"forward", "loss"}
  /\ \A b \in 0..(n_train_batches - 1) :
       /\ Len(TrainSteps(b)) <= Len(StepOrder)
       /\ \A j \in 1..Len(TrainSteps(b)) : TrainSteps(b)[j] = StepOrder[j]
       /\ (InTrainBatch /\ b > batch_i) => TrainSteps(b) = <<>>
       /\ (InTrainBatch /\ b < batch_i) => TrainSteps(b) = StepOrder
       /\ pc \in {"for_val_batch", "log", "append"} => TrainSteps(b) = StepOrder
  /\ InTrainBatch => mode = "train"
  /\ pc \in {"for_val_batch", "log", "append"} => mode = "eval"

C27_Witness ==
  /\ epoch = 1
  /\ pc = "log"
  /\ n_train_batches = 2
  /\ n_val_batches = 2
  /\ Len(events) = 14
  /\ events[10] = [op |-> "step", phase |-> "train", i |-> 1, mode |-> "train"]
  /\ events[11] = [op |-> "forward", phase |-> "val", i |-> 0, mode |-> "eval"]
  /\ updates = 4

\* the number an epoch's appended entry holds: the loss of the output the
\* model gave for batch b of the phase, after the optimizer steps taken so far
LossOfBatch(e, phase, b) ==
  [kind |-> "float",
   of |-> [epoch |-> e, phase |-> phase, i |-> b,
           updates |-> IF phase = "train" THEN e * n_train_batches + b
                       ELSE (e + 1) * n_train_batches,
           mode |-> IF phase = "train" THEN "train" ELSE "eval"]]

\* the epochs the loop has completed
EpochsRun == IF pc \in {"for_epoch", "trained"} THEN epoch + 1 ELSE epoch

\* C28: once the training cell has started, after k completed epochs
\* train_losses and val_losses hold k entries each, and the entry of epoch e
\* is the loss of the last training batch of epoch e in train_losses and the
\* loss of the last validation batch of epoch e in val_losses.
C28_OneEntryPerEpoch ==
  pc \in {"for_epoch", "for_train_batch", "zero_grad", "forward", "loss",
          "backward", "step", "for_val_batch", "log", "append", "trained",
          "raised"} =>
    /\ Len(train_losses) = EpochsRun
    /\ Len(val_losses) = EpochsRun
    /\ \A e \in 1..Len(train_losses) :
         train_losses[e] = LossOfBatch(e - 1, "train", n_train_batches - 1)
    /\ \A e \in 1..Len(val_losses) :
         val_losses[e] = LossOfBatch(e - 1, "val", n_val_batches - 1)

C28_Witness ==
  /\ pc = "trained"
  /\ n_train_batches = 2
  /\ n_val_batches = 2
  /\ Len(train_losses) = 10
  /\ Len(val_losses) = 10
  /\ val_losses[10].of = [epoch |-> 9, phase |-> "val", i |-> 1,
                          updates |-> 20, mode |-> "eval"]
  /\ train_losses[1].of.updates = 1


\* C29: a dataset built on the un-patched test stacks answers length() with
\* the number of images of the stack, and getItem(i) for 0 <= i < length()
\* with the i-th noisy image normalized with the noisy training statistics and
\* the i-th target image normalized with the target training statistics, both
\* 32-bit float behind a leading axis of size 1, in memory of their own; the
\* retrieval is refused only when a training std is zero; no call changes a
\* test stack.
C29_TestDatasetContract ==
  [][/\ test_images_array' = test_images_array
     /\ test_targets_array' = test_targets_array
     /\ (pc = "dataset" /\ pc' = "called" /\ image_data = test_images_array) =>
          LET n == test_images_array.shape[1]
          IN  /\ image_data' = test_images_array
              /\ target_data' = test_targets_array
              /\ length' # NoLength => length' = n
              /\ (item'.status # "none" /\ 0 <= item'.index /\ item'.index < n) =>
                   /\ item'.status # "IndexError"
                   /\ item'.status = "ok" <=>
                        (train_std.sq.n # 0 /\ target_std.sq.n # 0)
                   /\ item'.status = "ok" =>
                        /\ NormalizedPatch(item'.patch, test_images_array,
                                           item'.index, train_mean, train_std)
                        /\ NormalizedPatch(item'.target, test_targets_array,
                                           item'.index, target_mean, target_std)
                        /\ item'.patch.shape[1] = 1
                        /\ item'.target.shape[1] = 1
                        /\ item'.patch.dtype = "float32"
                        /\ item'.target.dtype = "float32"
                        /\ item'.patch.mem = "own"
                        /\ item'.target.mem = "own"]_vars

C29_Witness ==
  /\ pc = "called"
  /\ image_data = test_images_array
  /\ test_images_array.shape = <<2, 1, 2>>
  /\ image_array.shape # test_images_array.shape
  /\ item.status = "ok"
  /\ item.index = 1
  /\ item.patch.shape = <<1, 1, 2>>
  /\ NormalizedPatch(item.target, test_targets_array, 1, target_mean, target_std)
  /\ images_patches.shape[1] # 2

====
